---- MODULE Spec2Model ----
(***************************************************************************)
(* A model of jesse/research/optimize.py: the entry point optimize /        *)
(* _isolated_optimize, one action per statement of its body, and the        *)
(* configuration translator _format_config as an operator.                  *)
(***************************************************************************)
EXTENDS Integers, Sequences, FiniteSets, TLC

VARIABLES
    jesse_config,   \* jesse_config['app']: [trading_mode, debug_mode]
    config_store,   \* what set_config last injected into the process
    router,         \* the route table: [routes, extra_routes]
    pc,             \* position in _isolated_optimize
    args,           \* the arguments the caller gave optimize
    frame,          \* the parameters of _isolated_optimize, as now bound
    cpu_cores,      \* the local name cpu_cores
    optimizers,     \* the Optimizer handles constructed by this invocation
    run_calls,      \* the handles on which run() was invoked, in order
    steps,          \* the statements this invocation began, in order
    completed,      \* those of them that finished without raising
    raised,         \* the exception the failing statement raised
    error,          \* the exception that left _isolated_optimize
    pre,            \* the process-wide state when the invocation began
    calls,          \* invocations begun in this process
    t_config,       \* translator harness: the mapping handed to _format_config
    t_config0,      \* translator harness: that mapping before the first call
    t_outs,         \* translator harness: what each call returned, in order
    running,        \* the worker process whose state the variables above hold
    parked,         \* the state of every other worker process
    inherited       \* the process-wide state each worker process started from

procvars == <<jesse_config, config_store, router>>
invvars  == <<pc, args, frame, cpu_cores, optimizers, run_calls, steps,
              completed, raised, error, pre, calls>>
tvars    == <<t_config, t_config0, t_outs>>
poolvars == <<running, parked, inherited>>
vars     == <<jesse_config, config_store, router, pc, args, frame,
              cpu_cores, optimizers, run_calls, steps, completed, raised,
              error, pre, calls, t_config, t_config0, t_outs, running,
              parked, inherited>>

----------------------------------------------------------------------------
(* Bounds *)

\* invocations of the entry point in one process
MaxCalls == 2
\* calls of the translator on one mapping
MaxTranslateCalls == 2

----------------------------------------------------------------------------
(* Python values.  A string is the sequence of its characters; a float is  *)
(* kept in thousandths.                                                     *)

PyInt(n)   == [ty |-> "int",      n |-> n, s |-> <<>>]
PyFloat(m) == [ty |-> "float",    n |-> m, s |-> <<>>]
PyStr(s)   == [ty |-> "str",      n |-> 0, s |-> s]
PyNone     == [ty |-> "NoneType", n |-> 0, s |-> <<>>]

NoError      == [type |-> "none", arg |-> ""]
Exc(t, a)    == [type |-> t, arg |-> a]
Ok(v)        == [exc |-> NoError, val |-> v]
Raise(e)     == [exc |-> e, val |-> PyNone]
IsOk(r)      == r.exc = NoError

\* d[k] of a dict: the value, or KeyError(k)
GetItem(d, k) == IF k \in DOMAIN d THEN Ok(d[k]) ELSE Raise(Exc("KeyError", k))

Digits == <<"0", "1", "2", "3", "4", "5", "6", "7", "8", "9">>
IsDigit(c)  == \E i \in 1..Len(Digits) : Digits[i] = c
DigitVal(c) == (CHOOSE i \in 1..Len(Digits) : Digits[i] = c) - 1

RECURSIVE LStrip(_)
LStrip(s) == IF s # <<>> /\ Head(s) = " " THEN LStrip(Tail(s)) ELSE s

RECURSIVE RStrip(_)
RStrip(s) == IF s # <<>> /\ s[Len(s)] = " "
             THEN RStrip(SubSeq(s, 1, Len(s) - 1)) ELSE s

\* the digits of a decimal literal, with single underscores between digits;
\* -1 when s is not one
RECURSIVE ParseNat(_, _, _)
ParseNat(s, acc, afterDigit) ==
    IF s = <<>> THEN (IF afterDigit THEN acc ELSE -1)
    ELSE IF IsDigit(Head(s))
         THEN ParseNat(Tail(s), acc * 10 + DigitVal(Head(s)), TRUE)
    ELSE IF Head(s) = "_" /\ afterDigit
         THEN ParseNat(Tail(s), acc, FALSE)
    ELSE -1

\* int(x)
int(x) ==
    CASE x.ty = "int"   -> Ok(PyInt(x.n))
      [] x.ty = "float" -> Ok(PyInt(IF x.n >= 0 THEN x.n \div 1000
                                     ELSE -((-x.n) \div 1000)))
      [] x.ty = "str"   ->
            LET t    == RStrip(LStrip(x.s))
                sign == IF t # <<>> /\ Head(t) = "-" THEN -1 ELSE 1
                body == IF t # <<>> /\ Head(t) \in {"-", "+"} THEN Tail(t) ELSE t
                n    == ParseNat(body, 0, FALSE)
            IN  IF n < 0 THEN Raise(Exc("ValueError", "int"))
                ELSE Ok(PyInt(sign * n))
      [] OTHER          -> Raise(Exc("TypeError", "int"))

----------------------------------------------------------------------------
(* The string literals of the source, and those of the sample inputs. *)

S_futures  == <<"f", "u", "t", "u", "r", "e", "s">>
S_spot     == <<"s", "p", "o", "t">>
S_margin   == <<"m", "a", "r", "g", "i", "n">>
S_Binance  == <<"B", "i", "n", "a", "n", "c", "e">>
S_cross    == <<"c", "r", "o", "s", "s">>

EmptyDict == [k \in {} |-> PyNone]

\* the first exception among results evaluated in order, or NoError
RECURSIVE FirstError(_)
FirstError(rs) ==
    IF rs = <<>> THEN NoError
    ELSE IF IsOk(Head(rs)) THEN FirstError(Tail(rs))
    ELSE Head(rs).exc

\* a variant of the 'logging' literal with every flag True
LoggingFlags_AllTrue ==
    [balance_update |-> TRUE, order_cancellation |-> TRUE,
     order_execution |-> TRUE, order_submission |-> TRUE,
     position_closed |-> TRUE, position_increased |-> TRUE,
     position_opened |-> TRUE, position_reduced |-> TRUE,
     shorter_period_candles |-> TRUE, trading_candles |-> TRUE]

\* the 'logging' literal of _format_config
LoggingFlags ==
    [balance_update |-> TRUE, order_cancellation |-> TRUE,
     order_execution |-> TRUE, order_submission |-> TRUE,
     position_closed |-> TRUE, position_increased |-> TRUE,
     position_opened |-> TRUE, position_reduced |-> TRUE,
     shorter_period_candles |-> FALSE, trading_candles |-> TRUE]

\* exchange_config as built by the dict literal
ExchangeBase(config) ==
    [balance |-> config["starting_balance"], fee |-> config["fee"],
     type |-> config["type"], name |-> config["exchange"]]

\* the test of the if statement on exchange_config['type']
IsFutures(exchange_config) == exchange_config["type"] = PyStr(S_futures)

\* a variant that copies the leverage fields whenever the input has them
ExchangeWithFutures_IfPresent(exchange_config, config) ==
    IF {"futures_leverage", "futures_leverage_mode"} \subseteq DOMAIN config
    THEN exchange_config
         @@ ("futures_leverage" :> config["futures_leverage"])
         @@ ("futures_leverage_mode" :> config["futures_leverage_mode"])
    ELSE exchange_config

\* exchange_config after the if statement (its lookups having succeeded)
ExchangeWithFutures(exchange_config, config) ==
    IF IsFutures(exchange_config)
    THEN exchange_config
         @@ ("futures_leverage" :> config["futures_leverage"])
         @@ ("futures_leverage_mode" :> config["futures_leverage_mode"])
    ELSE exchange_config

\* a variant whose warmup_candles_num is read from the line below it
FrameworkConfig_WarmupFromRatio(exchange_config, config) ==
    [exchange |-> exchange_config,
     logging |-> LoggingFlags,
     warm_up_candles |-> config["warm_up_candles"],
     warmup_candles_num |-> config["ratio"],
     ratio |-> config["ratio"]]

\* the returned dict literal (its lookups having succeeded)
FrameworkConfig(exchange_config, config) ==
    [exchange |-> exchange_config,
     logging |-> LoggingFlags,
     warm_up_candles |-> config["warm_up_candles"],
     warmup_candles_num |-> config["warm_up_candles"],
     ratio |-> config["ratio"]]

\* a variant that reads the leverage fields with config.get(...) and leaves
\* out the ones the input lacks
_format_config_Lenient(config) ==
    LET e1 == FirstError(<<GetItem(config, "starting_balance"),
                           GetItem(config, "fee"),
                           GetItem(config, "type"),
                           GetItem(config, "exchange"),
                           GetItem(config, "warm_up_candles"),
                           GetItem(config, "ratio")>>)
    IN  IF e1 # NoError THEN Raise(e1)
        ELSE
        LET base == ExchangeBase(config)
            lev  == IF IsFutures(base)
                    THEN [k \in DOMAIN config \cap
                                {"futures_leverage", "futures_leverage_mode"}
                            |-> config[k]]
                    ELSE EmptyDict
        IN  Ok(FrameworkConfig(base @@ lev, config))

\* a variant that refuses a type that is neither 'spot' nor 'futures'
_format_config_Validating(config) ==
    LET e1 == FirstError(<<GetItem(config, "starting_balance"),
                           GetItem(config, "fee"),
                           GetItem(config, "type"),
                           GetItem(config, "exchange")>>)
    IN  IF e1 # NoError THEN Raise(e1)
        ELSE IF config["type"] \notin {PyStr(S_spot), PyStr(S_futures)}
        THEN Raise(Exc("ValueError", "type"))
        ELSE
        LET base == ExchangeBase(config)
            e2   == IF IsFutures(base)
                    THEN FirstError(<<GetItem(config, "futures_leverage"),
                                      GetItem(config, "futures_leverage_mode")>>)
                    ELSE NoError
        IN  IF e2 # NoError THEN Raise(e2)
            ELSE
            LET e3 == FirstError(<<GetItem(config, "warm_up_candles"),
                                   GetItem(config, "warm_up_candles"),
                                   GetItem(config, "ratio")>>)
            IN  IF e3 # NoError THEN Raise(e3)
                ELSE Ok(FrameworkConfig(ExchangeWithFutures(base, config), config))

\* _format_config(config): the dict it returns, or the first KeyError, the
\* lookups being made in the order of the source
_format_config(config) ==
    LET e1 == FirstError(<<GetItem(config, "starting_balance"),
                           GetItem(config, "fee"),
                           GetItem(config, "type"),
                           GetItem(config, "exchange")>>)
    IN  IF e1 # NoError THEN Raise(e1)
        ELSE
        LET base == ExchangeBase(config)
            e2   == IF IsFutures(base)
                    THEN FirstError(<<GetItem(config, "futures_leverage"),
                                      GetItem(config, "futures_leverage_mode")>>)
                    ELSE NoError
        IN  IF e2 # NoError THEN Raise(e2)
            ELSE
            LET e3 == FirstError(<<GetItem(config, "warm_up_candles"),
                                   GetItem(config, "warm_up_candles"),
                                   GetItem(config, "ratio")>>)
            IN  IF e3 # NoError THEN Raise(e3)
                ELSE Ok(FrameworkConfig(ExchangeWithFutures(base, config), config))

\* a variant that takes the leverage fields out of its argument
\* (config.pop in place of config[...])
FormatConfigArgAfter_Pop(config) ==
    IF "type" \in DOMAIN config /\ config["type"] = PyStr(S_futures)
    THEN [k \in DOMAIN config \ {"futures_leverage", "futures_leverage_mode"}
            |-> config[k]]
    ELSE config

\* the mapping handed to _format_config, after the call: no statement of the
\* function assigns to it or deletes from it
FormatConfigArgAfter(config) == config

----------------------------------------------------------------------------
(* Sample inputs *)

ConfigKeys == {"starting_balance", "fee", "type", "exchange",
               "futures_leverage", "futures_leverage_mode",
               "warm_up_candles", "ratio", "cpu_cores"}

KeyValues(k) ==
    CASE k = "starting_balance"      -> {PyInt(5000)}
      [] k = "fee"                   -> {PyFloat(1)}
      [] k = "type"                  -> {PyStr(S_spot), PyStr(S_futures),
                                         PyStr(S_margin)}
      [] k = "exchange"              -> {PyStr(S_Binance)}
      [] k = "futures_leverage"      -> {PyInt(3), PyInt(5)}
      [] k = "futures_leverage_mode" -> {PyStr(S_cross)}
      [] k = "warm_up_candles"       -> {PyInt(100)}
      [] k = "ratio"                 -> {PyFloat(800)}
      [] k = "cpu_cores"             -> {PyInt(4)}

\* every mapping over a subset of keys, each key with one of its values
RECURSIVE ConfigsOver(_)
ConfigsOver(keys) ==
    IF keys = {} THEN {EmptyDict}
    ELSE LET k    == CHOOSE x \in keys : TRUE
             rest == ConfigsOver(keys \ {k})
         IN  rest \cup {c @@ (k :> v) : c \in rest, v \in KeyValues(k)}

UserConfigs == ConfigsOver(ConfigKeys)

SpotConfig(cpu) ==
    [starting_balance |-> PyInt(5000), fee |-> PyFloat(1),
     type |-> PyStr(S_spot), exchange |-> PyStr(S_Binance),
     warm_up_candles |-> PyInt(100), ratio |-> PyFloat(800),
     cpu_cores |-> cpu]

FuturesConfig(cpu) ==
    [starting_balance |-> PyInt(5000), fee |-> PyFloat(1),
     type |-> PyStr(S_futures), exchange |-> PyStr(S_Binance),
     futures_leverage |-> PyInt(3), futures_leverage_mode |-> PyStr(S_cross),
     warm_up_candles |-> PyInt(100), ratio |-> PyFloat(800),
     cpu_cores |-> cpu]

Without(d, k) == [x \in DOMAIN d \ {k} |-> d[x]]

\* raw cpu_cores values: 4, "4", " 16 ", "4x", 2.5, None
CpuCoresValues == {PyInt(4), PyStr(<<"4">>), PyStr(<<" ", "1", "6", " ">>),
                   PyStr(<<"4", "x">>), PyFloat(2500), PyNone}

EntryConfigs ==
    {SpotConfig(c) : c \in CpuCoresValues}
    \cup {Without(SpotConfig(PyInt(4)), "cpu_cores"),
          Without(SpotConfig(PyInt(4)), "ratio"),
          FuturesConfig(PyStr(<<"4">>)),
          Without(FuturesConfig(PyInt(4)), "futures_leverage")}

R1 == [exchange |-> "Binance", strategy |-> "A1", symbol |-> "BTC-USDT",
       timeframe |-> "1m"]
R2 == [exchange |-> "Binance", strategy |-> "A2", symbol |-> "ETH-USDT",
       timeframe |-> "5m"]
E1 == [exchange |-> "Binance", strategy |-> "", symbol |-> "BTC-USDT",
       timeframe |-> "3m"]

\* (routes, extra_routes) pairs
RouteInputs == {<< <<>>, <<E1>> >>, << <<R1>>, <<E1>> >>, << <<R1, R2>>, <<>> >>}

\* the arguments the entry point only forwards
PassThrough ==
    {[start_date |-> "2021-01-01", finish_date |-> "2021-06-01",
      optimal_total |-> 10, training_candles |-> "trainA",
      testing_candles |-> "testA", csv |-> TRUE, json |-> FALSE],
     [start_date |-> "2022-02-02", finish_date |-> "2022-08-02",
      optimal_total |-> 200, training_candles |-> "trainB",
      testing_candles |-> "testB", csv |-> FALSE, json |-> TRUE]}

EntryInputs ==
    {[user_config |-> c, routes |-> r[1], extra_routes |-> r[2],
      start_date |-> p.start_date, finish_date |-> p.finish_date,
      optimal_total |-> p.optimal_total,
      training_candles |-> p.training_candles,
      testing_candles |-> p.testing_candles,
      csv |-> p.csv, json |-> p.json, debug_mode |-> d] :
        c \in EntryConfigs, r \in RouteInputs, p \in PassThrough, d \in BOOLEAN}

----------------------------------------------------------------------------
(* The collaborators imported by _isolated_optimize *)

\* jesse_config['app'] of a fresh process
InitialApp == [trading_mode |-> "", debug_mode |-> FALSE]

\* set_config(conf): the process's injected configuration afterwards, a
\* replacement of whatever was injected before
set_config(store, conf) == conf

\* router.initiate(routes, extra_routes): the route table afterwards
router_initiate(table, routes, extra_routes) ==
    [routes |-> routes, extra_routes |-> extra_routes]

\* the route table a failing router.initiate may leave: untouched, or with
\* the routes set and the extra routes not yet
router_initiate_failed(table, routes, extra_routes) ==
    {table, [routes |-> routes, extra_routes |-> table.extra_routes]}

\* validate_routes(router): whether it may return (TRUE) or raise (FALSE);
\* a table without routes is always refused
validate_routes(table) == IF table.routes = <<>> THEN {FALSE} ELSE BOOLEAN

\* Optimizer(**kwargs): the handle, which keeps what it was constructed with
Optimizer(kwargs, id) == [kwargs |-> kwargs, id |-> id]

----------------------------------------------------------------------------
(* optimize and _isolated_optimize *)

\* a variant that hands the two candle bundles over crossed
optimize_Crossed(a) ==
    [user_config |-> a.user_config, routes |-> a.routes,
     extra_routes |-> a.extra_routes, start_date |-> a.start_date,
     finish_date |-> a.finish_date, optimal_total |-> a.optimal_total,
     training_candles |-> a.testing_candles,
     testing_candles |-> a.training_candles,
     csv |-> a.csv, json |-> a.json, debug_mode |-> a.debug_mode]

\* optimize(...): the keyword arguments it hands to _isolated_optimize
optimize(a) ==
    [user_config |-> a.user_config, routes |-> a.routes,
     extra_routes |-> a.extra_routes, start_date |-> a.start_date,
     finish_date |-> a.finish_date, optimal_total |-> a.optimal_total,
     training_candles |-> a.training_candles,
     testing_candles |-> a.testing_candles,
     csv |-> a.csv, json |-> a.json, debug_mode |-> a.debug_mode]

\* the process-wide state
ProcessState ==
    [app |-> jesse_config, injected |-> config_store, routes |-> router]

\* a variant that wraps what was raised in another exception
Propagate_Wrapped(e) == Exc("RuntimeError", e.arg)

\* an exception raised in the body leaves the function as it is: the body
\* has no try statement
Propagate(e) == e

\* a variant that passes the cpu_cores entry of the caller's mapping as it is
OptimizerArgs_RawCpuCores ==
    [training_candles |-> frame.training_candles,
     testing_candles |-> frame.testing_candles,
     optimal_total |-> frame.optimal_total,
     cpu_cores |-> args.user_config["cpu_cores"],
     csv |-> frame.csv,
     export_json |-> frame.json,
     start_date |-> frame.start_date,
     finish_date |-> frame.finish_date,
     user_config |-> frame.user_config]

\* a variant in which debug mode runs the optimizer on one core
OptimizerArgs_DebugOneCore ==
    [training_candles |-> frame.training_candles,
     testing_candles |-> frame.testing_candles,
     optimal_total |-> frame.optimal_total,
     cpu_cores |-> IF frame.debug_mode THEN PyInt(1) ELSE cpu_cores,
     csv |-> frame.csv,
     export_json |-> frame.json,
     start_date |-> frame.start_date,
     finish_date |-> frame.finish_date,
     user_config |-> frame.user_config]

\* the keyword arguments of the Optimizer(...) call
OptimizerArgs ==
    [training_candles |-> frame.training_candles,
     testing_candles |-> frame.testing_candles,
     optimal_total |-> frame.optimal_total,
     cpu_cores |-> cpu_cores,
     csv |-> frame.csv,
     export_json |-> frame.json,
     start_date |-> frame.start_date,
     finish_date |-> frame.finish_date,
     user_config |-> frame.user_config]

\* the statement at pc raises e
Fail(e) ==
    /\ steps' = Append(steps, pc)
    /\ pc' = "raised"
    /\ raised' = e
    /\ error' = Propagate(e)
    /\ UNCHANGED completed

\* the statement at pc finishes, and control moves to the next one
Continue(next) ==
    /\ steps' = Append(steps, pc)
    /\ completed' = Append(completed, pc)
    /\ pc' = next
    /\ UNCHANGED <<raised, error>>

\* a call of optimize(...) in this process
Call(a) ==
    /\ pc \in {"idle", "returned", "raised"}
    /\ calls < MaxCalls
    /\ calls' = calls + 1
    /\ args' = a
    /\ frame' = optimize(a)
    /\ cpu_cores' = PyNone
    /\ optimizers' = <<>>
    /\ run_calls' = <<>>
    /\ steps' = <<>>
    /\ completed' = <<>>
    /\ raised' = NoError
    /\ error' = NoError
    /\ pre' = ProcessState
    /\ pc' = "set_trading_mode"
    /\ UNCHANGED <<procvars, tvars, poolvars>>

\* jesse_config['app']['trading_mode'] = 'optimize'
SetTradingMode ==
    /\ pc = "set_trading_mode"
    /\ jesse_config' = [jesse_config EXCEPT !.trading_mode = "optimize"]
    /\ Continue("set_debug_mode")
    /\ UNCHANGED <<config_store, router, args, frame, cpu_cores,
                   optimizers, run_calls, pre, calls, tvars, poolvars>>

\* jesse_config['app']['debug_mode'] = debug_mode
SetDebugMode ==
    /\ pc = "set_debug_mode"
    /\ jesse_config' = [jesse_config EXCEPT !.debug_mode = frame.debug_mode]
    /\ Continue("parse_cpu_cores")
    /\ UNCHANGED <<config_store, router, args, frame, cpu_cores,
                   optimizers, run_calls, pre, calls, tvars, poolvars>>

\* a variant that calls reset_config() when the parse fails
ParseCpuCores_ResetOnError ==
    /\ pc = "parse_cpu_cores"
    /\ LET item == GetItem(frame.user_config, "cpu_cores")
           r    == IF IsOk(item) THEN int(item.val) ELSE item
       IN  IF IsOk(r)
           THEN cpu_cores' = r.val /\ Continue("format_config")
                /\ UNCHANGED config_store
           ELSE Fail(r.exc) /\ UNCHANGED cpu_cores
                /\ config_store' = EmptyDict
    /\ UNCHANGED <<jesse_config, router, args, frame, optimizers, run_calls,
                   pre, calls, tvars, poolvars>>

\* cpu_cores = int(user_config['cpu_cores'])
ParseCpuCores ==
    /\ pc = "parse_cpu_cores"
    /\ LET item == GetItem(frame.user_config, "cpu_cores")
           r    == IF IsOk(item) THEN int(item.val) ELSE item
       IN  IF IsOk(r)
           THEN cpu_cores' = r.val /\ Continue("format_config")
           ELSE Fail(r.exc) /\ UNCHANGED cpu_cores
    /\ UNCHANGED <<procvars, args, frame, optimizers, run_calls, pre,
                   calls, tvars, poolvars>>

\* a variant that hands the mapping to set_config before translating it
FormatConfig_InjectFirst ==
    /\ pc = "format_config"
    /\ args' = [args EXCEPT !.user_config = FormatConfigArgAfter(@)]
    /\ config_store' = set_config(config_store, frame.user_config)
    /\ LET r == _format_config(frame.user_config)
       IN  IF IsOk(r)
           THEN frame' = [frame EXCEPT !.user_config = r.val]
                /\ Continue("set_config")
           ELSE Fail(r.exc) /\ UNCHANGED frame
    /\ UNCHANGED <<jesse_config, router, cpu_cores, optimizers, run_calls,
                   pre, calls, tvars, poolvars>>

\* user_config = _format_config(user_config)
FormatConfig ==
    /\ pc = "format_config"
    /\ args' = [args EXCEPT !.user_config = FormatConfigArgAfter(@)]
    /\ LET r == _format_config(frame.user_config)
       IN  IF IsOk(r)
           THEN frame' = [frame EXCEPT !.user_config = r.val]
                /\ Continue("set_config")
           ELSE Fail(r.exc) /\ UNCHANGED frame
    /\ UNCHANGED <<procvars, cpu_cores, optimizers, run_calls, pre, calls,
                   tvars, poolvars>>

\* a variant that injects only into a process that holds no configuration
SetConfig_OnlyFirst ==
    /\ pc = "set_config"
    /\ \E ok \in BOOLEAN :
          IF ok
          THEN config_store' = (IF config_store = EmptyDict
                                THEN set_config(config_store, frame.user_config)
                                ELSE config_store)
               /\ Continue("router_initiate")
          ELSE Fail(Exc("ConfigError", "set_config"))
               /\ UNCHANGED config_store
    /\ UNCHANGED <<jesse_config, router, args, frame, cpu_cores,
                   optimizers, run_calls, pre, calls, tvars, poolvars>>

\* set_config(user_config)
SetConfig ==
    /\ pc = "set_config"
    /\ \E ok \in BOOLEAN :
          IF ok
          THEN config_store' = set_config(config_store, frame.user_config)
               /\ Continue("router_initiate")
          ELSE Fail(Exc("ConfigError", "set_config"))
               /\ UNCHANGED config_store
    /\ UNCHANGED <<jesse_config, router, args, frame, cpu_cores,
                   optimizers, run_calls, pre, calls, tvars, poolvars>>

\* a variant after which the validate_routes statement is passed over
RouterInitiate_NoValidation ==
    /\ pc = "router_initiate"
    /\ \E ok \in BOOLEAN :
          IF ok
          THEN router' = router_initiate(router, frame.routes, frame.extra_routes)
               /\ Continue("Optimizer")
          ELSE router' \in router_initiate_failed(router, frame.routes,
                                                  frame.extra_routes)
               /\ Fail(Exc("RouteError", "initiate"))
    /\ UNCHANGED <<jesse_config, config_store, args, frame, cpu_cores,
                   optimizers, run_calls, pre, calls, tvars, poolvars>>

\* router.initiate(routes, extra_routes)
RouterInitiate ==
    /\ pc = "router_initiate"
    /\ \E ok \in BOOLEAN :
          IF ok
          THEN router' = router_initiate(router, frame.routes, frame.extra_routes)
               /\ Continue("validate_routes")
          ELSE router' \in router_initiate_failed(router, frame.routes,
                                                  frame.extra_routes)
               /\ Fail(Exc("RouteError", "initiate"))
    /\ UNCHANGED <<jesse_config, config_store, args, frame, cpu_cores,
                   optimizers, run_calls, pre, calls, tvars, poolvars>>

\* a variant that catches the validator's error and goes on
ValidateRoutes_Swallowed ==
    /\ pc = "validate_routes"
    /\ \E ok \in validate_routes(router) :
          IF ok
          THEN Continue("Optimizer")
          ELSE /\ steps' = Append(steps, pc)
               /\ pc' = "Optimizer"
               /\ UNCHANGED <<completed, raised, error>>
    /\ UNCHANGED <<procvars, args, frame, cpu_cores, optimizers,
                   run_calls, pre, calls, tvars, poolvars>>

\* a variant that puts the process-wide state back when validation fails
ValidateRoutes_Rollback ==
    /\ pc = "validate_routes"
    /\ \E ok \in validate_routes(router) :
          IF ok
          THEN Continue("Optimizer") /\ UNCHANGED <<config_store, router>>
          ELSE Fail(Exc("RouteError", "validate"))
               /\ config_store' = pre.injected
               /\ router' = pre.routes
    /\ UNCHANGED <<jesse_config, args, frame, cpu_cores, optimizers,
                   run_calls, pre, calls, tvars, poolvars>>

\* validate_routes(router)
ValidateRoutes ==
    /\ pc = "validate_routes"
    /\ \E ok \in validate_routes(router) :
          IF ok
          THEN Continue("Optimizer")
          ELSE Fail(Exc("RouteError", "validate"))
    /\ UNCHANGED <<procvars, args, frame, cpu_cores, optimizers,
                   run_calls, pre, calls, tvars, poolvars>>

\* optimizer = Optimizer(...)
ConstructOptimizer ==
    /\ pc = "Optimizer"
    /\ \E ok \in BOOLEAN :
          IF ok
          THEN optimizers' = Append(optimizers, Optimizer(OptimizerArgs, calls))
               /\ Continue("run")
          ELSE Fail(Exc("OptimizerError", "init"))
               /\ UNCHANGED optimizers
    /\ UNCHANGED <<procvars, args, frame, cpu_cores, run_calls, pre,
                   calls, tvars, poolvars>>

\* a variant that starts the run a second time when the first fails
RunOptimizer_Retry ==
    /\ pc = "run"
    /\ \E ok \in BOOLEAN :
          IF ok
          THEN run_calls' = Append(run_calls, optimizers[Len(optimizers)])
               /\ Continue("returned")
          ELSE run_calls' = run_calls \o <<optimizers[Len(optimizers)],
                                           optimizers[Len(optimizers)]>>
               /\ Fail(Exc("OptimizerError", "run"))
    /\ UNCHANGED <<procvars, args, frame, cpu_cores, optimizers, pre,
                   calls, tvars, poolvars>>

\* optimizer.run()
RunOptimizer ==
    /\ pc = "run"
    /\ run_calls' = Append(run_calls, optimizers[Len(optimizers)])
    /\ \E ok \in BOOLEAN :
          IF ok
          THEN Continue("returned")
          ELSE Fail(Exc("OptimizerError", "run"))
    /\ UNCHANGED <<procvars, args, frame, cpu_cores, optimizers, pre,
                   calls, tvars, poolvars>>

Init ==
    /\ jesse_config = InitialApp
    /\ config_store = EmptyDict
    /\ router = [routes |-> <<>>, extra_routes |-> <<>>]
    /\ pc = "idle"
    /\ args = EmptyDict
    /\ frame = EmptyDict
    /\ cpu_cores = PyNone
    /\ optimizers = <<>>
    /\ run_calls = <<>>
    /\ steps = <<>>
    /\ completed = <<>>
    /\ raised = NoError
    /\ error = NoError
    /\ pre = [app |-> InitialApp, injected |-> EmptyDict,
              routes |-> [routes |-> <<>>, extra_routes |-> <<>>]]
    /\ calls = 0
    /\ t_config = EmptyDict
    /\ t_config0 = EmptyDict
    /\ t_outs = <<>>
    /\ running = 1
    /\ parked = EmptyDict
    /\ inherited = pre

\* the statements of the body of _isolated_optimize
Step ==
    \/ SetTradingMode
    \/ SetDebugMode
    \/ ParseCpuCores
    \/ FormatConfig
    \/ SetConfig
    \/ RouterInitiate
    \/ ValidateRoutes
    \/ ConstructOptimizer
    \/ RunOptimizer

Next ==
    \/ \E a \in EntryInputs : Call(a)
    \/ Step

Spec == Init /\ [][Next]_vars

----------------------------------------------------------------------------
(* _format_config on its own: called repeatedly on one mapping, in a       *)
(* process whose state is whatever earlier work left.                       *)

\* a call _format_config(t_config)
TranslatorCall ==
    /\ Len(t_outs) < MaxTranslateCalls
    /\ t_outs' = Append(t_outs, _format_config(t_config))
    /\ t_config' = FormatConfigArgAfter(t_config)
    /\ UNCHANGED <<t_config0, procvars, invvars, poolvars>>

TranslatorInit ==
    /\ jesse_config \in {InitialApp,
                         [trading_mode |-> "optimize", debug_mode |-> TRUE]}
    /\ config_store \in {EmptyDict,
                         _format_config(SpotConfig(PyInt(4))).val}
    /\ router \in {[routes |-> <<>>, extra_routes |-> <<>>],
                   [routes |-> <<R1>>, extra_routes |-> <<E1>>]}
    /\ pc = "idle"
    /\ args = EmptyDict
    /\ frame = EmptyDict
    /\ cpu_cores = PyNone
    /\ optimizers = <<>>
    /\ run_calls = <<>>
    /\ steps = <<>>
    /\ completed = <<>>
    /\ raised = NoError
    /\ error = NoError
    /\ pre = ProcessState
    /\ calls = 0
    /\ t_config \in UserConfigs
    /\ t_config0 = t_config
    /\ t_outs = <<>>
    /\ running = 1
    /\ parked = EmptyDict
    /\ inherited = pre

TranslatorNext == TranslatorCall

TranslatorSpec == TranslatorInit /\ [][TranslatorNext]_vars

----------------------------------------------------------------------------
(* optimize called from a pool of worker processes.  Every worker has its  *)
(* own copy of the process-wide state, taken from the parent when the      *)
(* worker started; the workers' statements interleave in any order.  The   *)
(* variables of the entry point hold the state of the worker now taking a  *)
(* statement, parked the state of the others.                               *)

\* worker processes in the pool
NumWorkers == 2
Workers == 1..NumWorkers

\* the state of the worker whose statements are now being taken
WorkerState ==
    [jesse_config |-> jesse_config, config_store |-> config_store,
     router |-> router, pc |-> pc, args |-> args, frame |-> frame,
     cpu_cores |-> cpu_cores, optimizers |-> optimizers,
     run_calls |-> run_calls, steps |-> steps, completed |-> completed,
     raised |-> raised, error |-> error, pre |-> pre, calls |-> calls]

\* the state of worker w
StateOf(w) == IF w = running THEN WorkerState ELSE parked[w]

\* a worker that has not called optimize yet, in a process copied from h
FreshWorker(h) ==
    [jesse_config |-> h.app, config_store |-> h.injected, router |-> h.routes,
     pc |-> "idle", args |-> EmptyDict, frame |-> EmptyDict,
     cpu_cores |-> PyNone, optimizers |-> <<>>, run_calls |-> <<>>,
     steps |-> <<>>, completed |-> <<>>, raised |-> NoError,
     error |-> NoError, pre |-> h, calls |-> 0]

\* the parent's process-wide state when the pool starts: the parent has
\* been through an optimize call of its own (futures, routes R2 and E1,
\* debug mode on)
InheritedStates ==
    {[app |-> [trading_mode |-> "optimize", debug_mode |-> TRUE],
      injected |-> _format_config(FuturesConfig(PyInt(4))).val,
      routes |-> [routes |-> <<R2>>, extra_routes |-> <<E1>>]]}

\* the calls handed to the pool
PoolInputs ==
    {a \in EntryInputs :
        \/ /\ a.user_config = SpotConfig(PyStr(<<"4">>))
           /\ a.routes = <<R1>>
           /\ a.csv
        \/ /\ a.user_config = SpotConfig(PyStr(<<"4", "x">>))
           /\ a.routes = <<R1>>
           /\ a.csv
        \/ /\ a.user_config = FuturesConfig(PyStr(<<"4">>))
           /\ a.routes = <<R1, R2>>
           /\ ~a.csv
           /\ ~a.debug_mode}

\* a variant in which the workers are threads of one process as far as the
\* route table goes: the table stays as the last worker left it
Switch_SharedRouter(q) ==
    /\ q \in DOMAIN parked
    /\ running' = q
    /\ parked' = [w \in (DOMAIN parked \ {q}) \cup {running} |->
                     IF w = running THEN WorkerState ELSE parked[w]]
    /\ jesse_config' = parked[q].jesse_config
    /\ config_store' = parked[q].config_store
    /\ pc' = parked[q].pc
    /\ args' = parked[q].args
    /\ frame' = parked[q].frame
    /\ cpu_cores' = parked[q].cpu_cores
    /\ optimizers' = parked[q].optimizers
    /\ run_calls' = parked[q].run_calls
    /\ steps' = parked[q].steps
    /\ completed' = parked[q].completed
    /\ raised' = parked[q].raised
    /\ error' = parked[q].error
    /\ pre' = parked[q].pre
    /\ calls' = parked[q].calls
    /\ UNCHANGED <<router, tvars, inherited>>

\* the scheduler turns to worker q
Switch(q) ==
    /\ q \in DOMAIN parked
    /\ running' = q
    /\ parked' = [w \in (DOMAIN parked \ {q}) \cup {running} |->
                     IF w = running THEN WorkerState ELSE parked[w]]
    /\ jesse_config' = parked[q].jesse_config
    /\ config_store' = parked[q].config_store
    /\ router' = parked[q].router
    /\ pc' = parked[q].pc
    /\ args' = parked[q].args
    /\ frame' = parked[q].frame
    /\ cpu_cores' = parked[q].cpu_cores
    /\ optimizers' = parked[q].optimizers
    /\ run_calls' = parked[q].run_calls
    /\ steps' = parked[q].steps
    /\ completed' = parked[q].completed
    /\ raised' = parked[q].raised
    /\ error' = parked[q].error
    /\ pre' = parked[q].pre
    /\ calls' = parked[q].calls
    /\ UNCHANGED <<tvars, inherited>>

\* the one call a worker is given
PoolCall(a) == calls = 0 /\ Call(a)

PoolInit ==
    /\ inherited \in InheritedStates
    /\ running = 1
    /\ parked = [w \in Workers \ {1} |-> FreshWorker(inherited)]
    /\ jesse_config = inherited.app
    /\ config_store = inherited.injected
    /\ router = inherited.routes
    /\ pc = "idle"
    /\ args = EmptyDict
    /\ frame = EmptyDict
    /\ cpu_cores = PyNone
    /\ optimizers = <<>>
    /\ run_calls = <<>>
    /\ steps = <<>>
    /\ completed = <<>>
    /\ raised = NoError
    /\ error = NoError
    /\ pre = inherited
    /\ calls = 0
    /\ t_config = EmptyDict
    /\ t_config0 = EmptyDict
    /\ t_outs = <<>>

PoolNext ==
    \/ \E a \in PoolInputs : PoolCall(a)
    \/ Step
    \/ \E q \in Workers : Switch(q)

PoolSpec == PoolInit /\ [][PoolNext]_vars

----------------------------------------------------------------------------
(* Properties of the entry point (checked under Spec) *)

InSeq(x, s) == \E i \in 1..Len(s) : s[i] = x
Occurrences(x, s) == Cardinality({i \in 1..Len(s) : s[i] = x})
IsPrefix(s, t) == Len(s) <= Len(t) /\ s = SubSeq(t, 1, Len(s))
Last(s) == s[Len(s)]
Terminal == pc \in {"returned", "raised"}
InCall == calls > 0

\* the statements of the body, in the order of the source
Protocol == <<"set_trading_mode", "set_debug_mode", "parse_cpu_cores",
              "format_config", "set_config", "router_initiate",
              "validate_routes", "Optimizer", "run">>

\* C1: within an invocation a statement is begun only when every statement
\* begun before it has finished without raising, and it is then exactly the
\* next one of the order flags, cpu_cores parse, translation, injection,
\* route initiation, route validation, Optimizer construction, run: none is
\* passed over, none is taken out of turn.
C1_StepsInOrder ==
    [][steps' # steps =>
          \/ steps' = <<>>
          \/ /\ raised = NoError
             /\ completed = steps
             /\ Len(steps) < Len(Protocol)
             /\ steps' = Append(steps, Protocol[Len(steps) + 1])]_vars

C1_FullRun == pc = "returned" /\ steps = Protocol /\ completed = Protocol

\* C2: an Optimizer is constructed (and run) only after validate_routes has
\* returned in the same invocation; when validation raises, as it does for
\* an empty routes sequence, none is constructed and run() is not invoked.
C2_ConstructAfterValidation ==
    /\ (InSeq("Optimizer", steps) \/ optimizers # <<>> \/ run_calls # <<>>)
          => InSeq("validate_routes", completed)
    /\ (InSeq("validate_routes", steps) /\ ~InSeq("validate_routes", completed))
          => /\ optimizers = <<>>
             /\ run_calls = <<>>
             /\ ~InSeq("Optimizer", steps)
             /\ ~InSeq("run", steps)
    /\ (InCall /\ args.routes = <<>>)
          => /\ ~InSeq("validate_routes", completed)
             /\ optimizers = <<>>
             /\ run_calls = <<>>

C2_EmptyRoutesRefused ==
    /\ pc = "raised"
    /\ args.routes = <<>>
    /\ Last(steps) = "validate_routes"
    /\ raised = Exc("RouteError", "validate")
    /\ optimizers = <<>>

\* C3: an error raised by the cpu_cores parse, the translation, the
\* injection, route initiation, route validation, the construction or the
\* run ends the invocation with that very error: the failing statement is
\* the last one begun, none is begun twice, and what leaves the function is
\* what was raised.  An invocation that has not ended can always take its
\* next statement, and it ends either returned, with every statement
\* finished and no error, or raised.
C3_ErrorPropagatesUnchanged ==
    /\ pc = "raised"
          => /\ raised # NoError
             /\ error = raised
             /\ Len(steps) = Len(completed) + 1
             /\ IsPrefix(completed, steps)
             /\ IsPrefix(steps, Protocol)
             /\ Last(steps) \notin {"set_trading_mode", "set_debug_mode"}
    /\ pc # "raised"
          => /\ raised = NoError
             /\ error = NoError
             /\ steps = completed
    /\ pc = "returned" => completed = Protocol
    /\ (InCall /\ ~Terminal) => ENABLED Step

C3_ParseErrorSurfaces ==
    /\ pc = "raised"
    /\ Last(steps) = "parse_cpu_cores"
    /\ error = Exc("ValueError", "int")

\* C4: every invocation that has ended, failed or not, has written
\* trading_mode 'optimize' and debug_mode as given; until the cpu_cores
\* parse has finished nothing else of the process is written: when
\* cpu_cores is missing or not convertible the invocation fails at the
\* parse with the injected configuration and the route table as they were
\* before the call and no Optimizer constructed.
C4_OnlyFlagsBeforeParse ==
    /\ (InCall /\ Terminal)
          => jesse_config = [trading_mode |-> "optimize",
                             debug_mode |-> args.debug_mode]
    /\ (InCall /\ ~InSeq("parse_cpu_cores", completed))
          => /\ config_store = pre.injected
             /\ router = pre.routes
             /\ optimizers = <<>>
    /\ (InCall /\ Terminal
        /\ \/ "cpu_cores" \notin DOMAIN args.user_config
           \/ args.user_config["cpu_cores"] \in {PyNone, PyStr(<<"4", "x">>)})
          => /\ pc = "raised"
             /\ Last(steps) = "parse_cpu_cores"

C4_ParseFailsInUsedProcess ==
    /\ pc = "raised"
    /\ Last(steps) = "parse_cpu_cores"
    /\ calls = 2
    /\ pre.injected # EmptyDict
    /\ pre.routes.routes # <<>>
    /\ pre.app.debug_mode # args.debug_mode

\* C5: a failed invocation keeps every process-wide write of the statements
\* that finished before the failure: the two flags always, this call's
\* translated configuration once set_config has finished, this call's route
\* table once router.initiate has finished.
C5_NoRollback ==
    pc = "raised"
       => /\ jesse_config = [trading_mode |-> "optimize",
                             debug_mode |-> args.debug_mode]
          /\ InSeq("set_config", completed)
                => /\ config_store = frame.user_config
                   /\ config_store = _format_config(args.user_config).val
          /\ InSeq("router_initiate", completed)
                => router = [routes |-> args.routes,
                             extra_routes |-> args.extra_routes]

C5_ValidationFailsAfterWrites ==
    /\ pc = "raised"
    /\ Last(steps) = "validate_routes"
    /\ calls = 2
    /\ config_store # pre.injected
    /\ router # pre.routes

\* C6: an invocation constructs at most one Optimizer and invokes run() at
\* most once, on the handle it constructed itself; an invocation that
\* returns has done both exactly once.
C6_OneOptimizerOneRun ==
    /\ Len(optimizers) <= 1
    /\ Len(run_calls) <= 1
    /\ Occurrences("Optimizer", steps) <= 1
    /\ Occurrences("run", steps) <= 1
    /\ \A i \in 1..Len(optimizers) : optimizers[i].id = calls
    /\ run_calls # <<>> => (optimizers # <<>> /\ run_calls[1] = optimizers[1])
    /\ pc = "returned" => (Len(optimizers) = 1 /\ Len(run_calls) = 1)

C6_SecondCallRan ==
    /\ pc = "returned"
    /\ calls = 2
    /\ Len(optimizers) = 1
    /\ run_calls = <<optimizers[1]>>

\* C8: the cpu_cores an Optimizer is constructed with is the integer parsed
\* from the cpu_cores entry of the caller's mapping ("4" gives 4, " 16 "
\* gives 16, 2.5 gives 2), never the entry itself; the parse reads the
\* mapping as the caller gave it and has finished before translation begins.
C8_CpuCoresParsed ==
    /\ \A i \in 1..Len(optimizers) :
          LET raw == args.user_config["cpu_cores"]
              got == optimizers[i].kwargs.cpu_cores
          IN  /\ got.ty = "int"
              /\ got = int(raw).val
              /\ raw = PyStr(<<"4">>) => got = PyInt(4)
              /\ raw = PyStr(<<" ", "1", "6", " ">>) => got = PyInt(16)
              /\ raw = PyFloat(2500) => got = PyInt(2)
    /\ (InCall /\ ~InSeq("format_config", completed))
          => frame.user_config = args.user_config
    /\ InSeq("format_config", steps) => InSeq("parse_cpu_cores", completed)

C8_StringFourPassedAsInt ==
    /\ optimizers # <<>>
    /\ args.user_config["cpu_cores"] = PyStr(<<"4">>)
    /\ optimizers[1].kwargs.cpu_cores = PyInt(4)

\* C9: an Optimizer is constructed with the translated configuration, the
\* one set_config injected, and with training_candles, testing_candles,
\* optimal_total, start_date, finish_date, csv and json (as export_json)
\* exactly as the caller gave them.
C9_OptimizerArguments ==
    \A i \in 1..Len(optimizers) :
       LET k == optimizers[i].kwargs
       IN  /\ k.user_config = config_store
           /\ k.user_config = _format_config(args.user_config).val
           /\ k.user_config # args.user_config
           /\ k.training_candles = args.training_candles
           /\ k.testing_candles = args.testing_candles
           /\ k.optimal_total = args.optimal_total
           /\ k.start_date = args.start_date
           /\ k.finish_date = args.finish_date
           /\ k.csv = args.csv
           /\ k.export_json = args.json

C9_FuturesOptimizerBuilt ==
    /\ optimizers # <<>>
    /\ args.user_config["type"] = PyStr(S_futures)
    /\ args.csv /\ ~args.json
    /\ "futures_leverage" \in DOMAIN optimizers[1].kwargs.user_config["exchange"]

\* C11: in a process that has been through an earlier call, once this
\* call's set_config has finished the injected configuration is exactly the
\* translation of this call's mapping, and once its router.initiate has
\* finished the route table is exactly this call's routes and extra routes:
\* nothing of the earlier call's configuration or routes is left.
C11_SecondCallOverwrites ==
    /\ (InCall /\ InSeq("set_config", completed))
          => /\ config_store = _format_config(args.user_config).val
             /\ config_store = frame.user_config
    /\ (InCall /\ InSeq("router_initiate", completed))
          => /\ router.routes = args.routes
             /\ router.extra_routes = args.extra_routes
             /\ DOMAIN router = {"routes", "extra_routes"}

C11_SecondCallReplacedFirst ==
    /\ calls = 2
    /\ InSeq("router_initiate", completed)
    /\ pre.injected # EmptyDict
    /\ pre.injected # config_store
    /\ pre.routes.routes # <<>>
    /\ pre.routes.routes # router.routes
    /\ pre.routes.extra_routes # router.extra_routes

\* C17: nothing is injected before the translation has finished: when
\* _format_config raises, the invocation ends there with that KeyError, the
\* injected configuration and the route table as they were before the call,
\* set_config, router.initiate, validate_routes and Optimizer never begun,
\* and the two flags already written.
C17_TranslationFailureInjectsNothing ==
    /\ (InCall /\ ~InSeq("format_config", completed))
          => /\ config_store = pre.injected
             /\ router = pre.routes
             /\ optimizers = <<>>
             /\ \A st \in {"set_config", "router_initiate", "validate_routes",
                            "Optimizer", "run"} : ~InSeq(st, steps)
    /\ (InSeq("format_config", steps) /\ ~InSeq("format_config", completed))
          => /\ pc = "raised"
             /\ raised.type = "KeyError"
             /\ jesse_config = [trading_mode |-> "optimize",
                                debug_mode |-> args.debug_mode]
    /\ (InCall /\ Terminal /\ InSeq("parse_cpu_cores", completed)
        /\ \/ "ratio" \notin DOMAIN args.user_config
           \/ /\ args.user_config["type"] = PyStr(S_futures)
              /\ "futures_leverage" \notin DOMAIN args.user_config)
          => /\ pc = "raised"
             /\ Last(steps) = "format_config"

C17_FuturesWithoutLeverageInUsedProcess ==
    /\ pc = "raised"
    /\ Last(steps) = "format_config"
    /\ raised = Exc("KeyError", "futures_leverage")
    /\ calls = 2
    /\ pre.injected # EmptyDict
    /\ pre.routes.routes # <<>>
    /\ jesse_config.debug_mode # pre.app.debug_mode

----------------------------------------------------------------------------
(* Properties of the translator (checked under TranslatorSpec) *)

BaseExchangeKeys == {"balance", "fee", "type", "name"}
FuturesKeys == {"futures_leverage", "futures_leverage_mode"}

\* C7: when _format_config returns, the exchange mapping of what it returns
\* has futures_leverage and futures_leverage_mode exactly when the input's
\* type is 'futures': for 'spot' it has the four base keys only, whatever
\* the input carries; for 'futures' it has both, equal to the input's; and
\* balance, fee, type, name are the input's starting_balance, fee, type,
\* exchange.
C7_FuturesFieldsIffFutures ==
    \A i \in 1..Len(t_outs) :
       IsOk(t_outs[i]) =>
          LET ex == t_outs[i].val["exchange"]
              c  == t_config0
          IN  /\ \A f \in FuturesKeys :
                    f \in DOMAIN ex <=> c["type"] = PyStr(S_futures)
              /\ c["type"] = PyStr(S_spot) => DOMAIN ex = BaseExchangeKeys
              /\ c["type"] = PyStr(S_futures)
                    => /\ DOMAIN ex = BaseExchangeKeys \cup FuturesKeys
                       /\ \A f \in FuturesKeys : ex[f] = c[f]
              /\ ex["balance"] = c["starting_balance"]
              /\ ex["fee"] = c["fee"]
              /\ ex["type"] = c["type"]
              /\ ex["name"] = c["exchange"]

C7_SpotCarryingLeverage ==
    /\ t_outs # <<>>
    /\ IsOk(t_outs[1])
    /\ t_config0["type"] = PyStr(S_spot)
    /\ FuturesKeys \subseteq DOMAIN t_config0
    /\ DOMAIN t_outs[1].val["exchange"] = BaseExchangeKeys

RequiredKeys == {"starting_balance", "fee", "type", "exchange",
                 "warm_up_candles", "ratio"}

\* C14: the leverage fields are required exactly for 'futures': translating
\* a mapping of type 'futures' that lacks futures_leverage or
\* futures_leverage_mode raises KeyError and returns no configuration (the
\* KeyError names the first missing leverage field when the four exchange
\* fields are there); translating a mapping of type 'spot' that lacks both
\* and has the other fields returns one.
C14_LeverageRequiredIffFutures ==
    \A i \in 1..Len(t_outs) :
       LET c   == t_config0
           out == t_outs[i]
       IN  /\ ("type" \in DOMAIN c /\ c["type"] = PyStr(S_futures)
               /\ ~(FuturesKeys \subseteq DOMAIN c))
                 => /\ ~IsOk(out)
                    /\ out.exc.type = "KeyError"
                    /\ out.val = PyNone
                    /\ {"starting_balance", "fee", "exchange"} \subseteq DOMAIN c
                          => out.exc.arg =
                                (IF "futures_leverage" \in DOMAIN c
                                 THEN "futures_leverage_mode"
                                 ELSE "futures_leverage")
           /\ (RequiredKeys \subseteq DOMAIN c /\ c["type"] = PyStr(S_spot)
               /\ FuturesKeys \cap DOMAIN c = {})
                 => IsOk(out)
           /\ (RequiredKeys \cup FuturesKeys \subseteq DOMAIN c
               /\ c["type"] = PyStr(S_futures))
                 => IsOk(out)

C14_FuturesWithoutLeverageRaises ==
    /\ t_outs # <<>>
    /\ RequiredKeys \subseteq DOMAIN t_config0
    /\ t_config0["type"] = PyStr(S_futures)
    /\ "futures_leverage" \in DOMAIN t_config0
    /\ "futures_leverage_mode" \notin DOMAIN t_config0
    /\ t_outs[1] = Raise(Exc("KeyError", "futures_leverage_mode"))

\* C15: when _format_config returns, warm_up_candles and warmup_candles_num
\* of what it returns both equal the input's warm_up_candles, and ratio
\* equals the input's ratio.
C15_WarmupAndRatioCopied ==
    \A i \in 1..Len(t_outs) :
       IsOk(t_outs[i]) =>
          LET o == t_outs[i].val
          IN  /\ o["warm_up_candles"] = t_config0["warm_up_candles"]
              /\ o["warmup_candles_num"] = t_config0["warm_up_candles"]
              /\ o["warm_up_candles"] = o["warmup_candles_num"]
              /\ o["ratio"] = t_config0["ratio"]

C15_WarmupCopied ==
    /\ t_outs # <<>>
    /\ IsOk(t_outs[1])
    /\ t_outs[1].val["warmup_candles_num"] = PyInt(100)
    /\ t_outs[1].val["ratio"] = PyFloat(800)

LoggingNames == {"balance_update", "order_cancellation", "order_execution",
                 "order_submission", "position_closed", "position_increased",
                 "position_opened", "position_reduced",
                 "shorter_period_candles", "trading_candles"}

\* C16: when _format_config returns, the logging mapping of what it returns
\* has exactly ten flags, shorter_period_candles False and the nine others
\* True, whatever the input.
C16_LoggingFlagsFixed ==
    \A i \in 1..Len(t_outs) :
       IsOk(t_outs[i]) =>
          LET lg == t_outs[i].val["logging"]
          IN  /\ DOMAIN lg = LoggingNames
              /\ Cardinality(DOMAIN lg) = 10
              /\ \A k \in DOMAIN lg : lg[k] = (k # "shorter_period_candles")

C16_FuturesLoggingFixed ==
    /\ t_outs # <<>>
    /\ IsOk(t_outs[1])
    /\ t_config0["type"] = PyStr(S_futures)
    /\ t_outs[1].val["logging"]["shorter_period_candles"] = FALSE
    /\ t_outs[1].val["logging"]["trading_candles"] = TRUE

\* C18 as stated: a mapping whose type is anything but 'futures' and which
\* has starting_balance, fee and exchange is translated, with its type
\* copied and an exchange mapping of exactly balance, fee, type, name.
C18_AsStated ==
    \A i \in 1..Len(t_outs) :
       LET c == t_config0
       IN  ({"starting_balance", "fee", "type", "exchange"} \subseteq DOMAIN c
            /\ c["type"] # PyStr(S_futures))
              => /\ IsOk(t_outs[i])
                 /\ t_outs[i].val["exchange"]["type"] = c["type"]
                 /\ DOMAIN t_outs[i].val["exchange"] = BaseExchangeKeys

\* C18: a mapping whose type is anything but 'futures' (one that is neither
\* 'spot' nor 'futures' included) and which has starting_balance, fee,
\* exchange, warm_up_candles and ratio is translated, with its type copied
\* and an exchange mapping of exactly balance, fee, type, name.
C18_UnrecognizedTypeAccepted ==
    \A i \in 1..Len(t_outs) :
       LET c == t_config0
       IN  (RequiredKeys \subseteq DOMAIN c /\ c["type"] # PyStr(S_futures))
              => /\ IsOk(t_outs[i])
                 /\ t_outs[i].val["exchange"]["type"] = c["type"]
                 /\ DOMAIN t_outs[i].val["exchange"] = BaseExchangeKeys

C18_MarginTranslated ==
    /\ t_outs # <<>>
    /\ IsOk(t_outs[1])
    /\ t_config0["type"] = PyStr(S_margin)
    /\ t_outs[1].val["exchange"]["type"] = PyStr(S_margin)
    /\ DOMAIN t_outs[1].val["exchange"] = BaseExchangeKeys

----------------------------------------------------------------------------
(* Properties of the pool (checked under PoolSpec) *)

\* what an invocation with arguments a, run alone in a process copied from
\* h, has made of the process-wide state and of the Optimizer once the
\* statements in done have finished and those in begun have been started
AloneKwargs(a) ==
    [training_candles |-> a.training_candles,
     testing_candles |-> a.testing_candles,
     optimal_total |-> a.optimal_total,
     cpu_cores |-> int(a.user_config["cpu_cores"]).val,
     csv |-> a.csv,
     export_json |-> a.json,
     start_date |-> a.start_date,
     finish_date |-> a.finish_date,
     user_config |-> _format_config(a.user_config).val]

AloneFlags(a, h, done) ==
    [trading_mode |-> IF InSeq("set_trading_mode", done)
                      THEN "optimize" ELSE h.app.trading_mode,
     debug_mode   |-> IF InSeq("set_debug_mode", done)
                      THEN a.debug_mode ELSE h.app.debug_mode]

AloneInjected(a, h, done) ==
    IF InSeq("set_config", done)
    THEN _format_config(a.user_config).val ELSE h.injected

AloneRouters(a, h, begun, done) ==
    IF InSeq("router_initiate", done)
    THEN {[routes |-> a.routes, extra_routes |-> a.extra_routes]}
    ELSE IF InSeq("router_initiate", begun)
         THEN router_initiate_failed(h.routes, a.routes, a.extra_routes)
         ELSE {h.routes}

AloneOptimizers(a, done) ==
    IF InSeq("Optimizer", done)
    THEN <<Optimizer(AloneKwargs(a), 1)>> ELSE <<>>

\* C12: with the workers' statements interleaved in every order, each
\* worker's flags, injected configuration, route table and Optimizer
\* arguments are those its own invocation gives when run alone from the
\* state the worker started with: nothing of another worker's invocation
\* shows in them, and no statement ever waits for another worker.
C12_WorkersIsolated ==
    /\ \A w \in Workers :
          LET s == StateOf(w)
          IN  /\ s.pre = inherited
              /\ s.calls = 0 => s = FreshWorker(inherited)
              /\ s.calls > 0 =>
                   /\ s.jesse_config =
                         AloneFlags(s.args, inherited, s.completed)
                   /\ s.config_store =
                         AloneInjected(s.args, inherited, s.completed)
                   /\ s.router \in
                         AloneRouters(s.args, inherited, s.steps, s.completed)
                   /\ s.optimizers = AloneOptimizers(s.args, s.completed)
    /\ pc \notin {"idle", "returned", "raised"} => ENABLED Step

\* two workers given different arguments have both returned
C12_TwoWorkersReturned ==
    /\ StateOf(1).pc = "returned"
    /\ StateOf(2).pc = "returned"
    /\ StateOf(1).args.user_config = SpotConfig(PyStr(<<"4">>))
    /\ StateOf(2).args.user_config = FuturesConfig(PyStr(<<"4">>))
    /\ StateOf(1).config_store # StateOf(2).config_store
    /\ StateOf(1).router # StateOf(2).router
    /\ StateOf(1).router # inherited.routes

\* two invocations given the same arguments but for debug_mode
DifferOnlyInDebugMode(a, b) ==
    /\ a.debug_mode # b.debug_mode
    /\ [a EXCEPT !.debug_mode = b.debug_mode] = b

\* what the collaborators outside the module answered to an invocation: which
\* of their calls were made, which returned, and the table a raising
\* router.initiate left
CollaboratorAnswers(s) ==
    [x \in {"set_config", "router_initiate", "validate_routes", "Optimizer",
            "run"} |->
        <<InSeq(x, s.steps), InSeq(x, s.completed),
          IF x = "router_initiate" /\ InSeq(x, s.steps)
                                   /\ ~InSeq(x, s.completed)
          THEN s.router ELSE inherited.routes>>]

\* C13: two invocations from the same process state whose arguments differ
\* in debug_mode only, taken equally far and given the same answers by the
\* collaborators, have taken the same statements with the same outcomes, are
\* at the same place with the same error if any, have injected the same
\* configuration, initiated the same route table and constructed the
\* Optimizer with the same arguments; of the process-wide state only the
\* debug-mode flag differs, and it does once it has been written.
C13_DebugModeNoInterference ==
    \A v, w \in Workers :
       LET s == StateOf(v)
           t == StateOf(w)
       IN  (/\ s.calls > 0
            /\ t.calls > 0
            /\ s.pre = t.pre
            /\ DifferOnlyInDebugMode(s.args, t.args)
            /\ Len(s.steps) = Len(t.steps)
            /\ CollaboratorAnswers(s) = CollaboratorAnswers(t))
           => /\ s.steps = t.steps
              /\ s.completed = t.completed
              /\ s.pc = t.pc
              /\ s.raised = t.raised
              /\ s.error = t.error
              /\ s.cpu_cores = t.cpu_cores
              /\ s.config_store = t.config_store
              /\ s.router = t.router
              /\ s.optimizers = t.optimizers
              /\ s.run_calls = t.run_calls
              /\ s.jesse_config.trading_mode = t.jesse_config.trading_mode
              /\ InSeq("set_debug_mode", s.completed) =>
                    /\ s.jesse_config.debug_mode = s.args.debug_mode
                    /\ t.jesse_config.debug_mode = t.args.debug_mode
                    /\ s.jesse_config.debug_mode # t.jesse_config.debug_mode

\* two workers, one in debug mode and one not, have both returned
C13_DebugAndQuietReturned ==
    /\ StateOf(1).pc = "returned"
    /\ StateOf(2).pc = "returned"
    /\ DifferOnlyInDebugMode(StateOf(1).args, StateOf(2).args)
    /\ StateOf(1).jesse_config.debug_mode
    /\ ~StateOf(2).jesse_config.debug_mode
    /\ StateOf(1).optimizers = StateOf(2).optimizers
    /\ Len(StateOf(1).optimizers) = 1

====
